---- MODULE Spec2Model ----
(***************************************************************************)
(* A state-machine model of the CHIP-8 virtual machine of this repository: *)
(* the interpreter (src/src/chip8.rs), its framebuffer (src/src/display.rs)*)
(* its keypad (src/src/input.rs) and the tone device (src/src/audio.rs).   *)
(*                                                                         *)
(* One action models one position of Chip8::run: the initial present, the  *)
(* input poll, the quit check, one Chip8::step, the timer update, the      *)
(* present-if-dirty, the tone update; and one iteration of the polling     *)
(* loop of Input::wait_for_input, in which Fx0A blocks.  The host's event  *)
(* source is the action HostEvent.                                         *)
(*                                                                         *)
(* usize values are kept as integers; a value below 0 stands for the       *)
(* value modulo 2^64 a release build wraps to (-2 is 2^64 - 2).  A panic   *)
(* (index out of bounds, arithmetic overflow of a debug build) ends the    *)
(* process: the model moves to loc = "fault" and keeps the state the       *)
(* handler was entered with, which nothing can observe any more.  A panic  *)
(* of Chip8::new itself (a program file too long for the memory) leaves no *)
(* interpreter at all: loc = "abort" from the initial state on.            *)
(*                                                                         *)
(* The two byte vectors are kept sparsely.  `memory` holds the bytes that  *)
(* differ from the image Chip8::new builds before it copies the program    *)
(* (the font table, 0 elsewhere); `pixels` holds the cells that are not 0. *)
(* ReadByte/WriteByte and PixelAt/SetPixel are the reads and writes of the *)
(* vectors; the bounds checks of the indexing are InMemory and InDisplay.  *)
(***************************************************************************)
EXTENDS Integers, Sequences, FiniteSets, TLC

\* ------------------------------------------------------------------------
\* Program constants
\* ------------------------------------------------------------------------

MEMORY_SIZE == 4096

PROGRAM_START == 512

STACK_START == PROGRAM_START - 32

CYCLES_PER_SECOND == 120

FONT_DATA_START == 0

FONT_DIGIT_SIZE == 5

DISPLAY_W == 64

DISPLAY_H == 32

FONT_DATA ==
    << 240, 144, 144, 144, 240,
        32,  96,  32,  32, 112,
       240,  16, 240, 128, 240,
       240,  16, 240,  16, 240,
       144, 144, 240,  16,  16,
       240, 128, 240,  16, 240,
       240, 128, 240, 144, 240,
       240,  16,  32,  64,  64,
       240, 144, 240, 144, 240,
       240, 144, 240,  16, 240,
       240, 144, 240, 144, 144,
       224, 144, 224, 144, 224,
       240, 128, 128, 128, 240,
       224, 144, 144, 144, 224,
       240, 128, 240, 128, 240,
       240, 128, 240, 128, 128 >>

\* ------------------------------------------------------------------------
\* Bounds of the model
\* ------------------------------------------------------------------------

\* Events the host delivers in one run.
MaxEvents == 2

\* Keypad keys the host presses are 0..MaxKey.
MaxKey == 1

\* rand::random() draws from 0..MaxRandom and 255.
MaxRandom == 1

\* The timer-tick counters kept for the decay claim saturate here.
MaxTicks == 6

\* The one-word programs take their x nibble from 0 and 15 - XSpread .. 15.
XSpread == 0

\* The register values of the arithmetic programs are taken from
\* 0 .. ByteSpread, 127 .. 127 + ByteSpread and 255 - ByteSpread .. 255.
ByteSpread == 1

\* bytes by which the longest program file exceeds the memory above 0x200
LoadExcess == 2

\* ------------------------------------------------------------------------
\* Bytes and words
\* ------------------------------------------------------------------------

Byte == 0..255

Pow2(n) == IF n = 0 THEN 1 ELSE 2^n

\* quark::BitIndex::bits(lo..hi) of a word
Bits(word, lo, hi) == (word \div Pow2(lo)) % Pow2(hi - lo)

AndTable == [p \in 0..1 |-> [q \in 0..1 |-> p * q]]

OrTable == [p \in 0..1 |-> [q \in 0..1 |-> IF p + q > 0 THEN 1 ELSE 0]]

XorTable == [p \in 0..1 |-> [q \in 0..1 |-> (p + q) % 2]]

RECURSIVE BitOp(_, _, _, _)
\* the low n bits of a and b combined bit by bit by the truth table f
BitOp(f, a, b, n) ==
    IF n = 0 THEN 0
    ELSE f[a % 2][b % 2] + 2 * BitOp(f, a \div 2, b \div 2, n - 1)

BitAnd(a, b) == BitOp(AndTable, a, b, 8)

BitOr(a, b) == BitOp(OrTable, a, b, 8)

BitXor(a, b) == BitOp(XorTable, a, b, 8)

RECURSIVE ReverseBitsN(_, _)
ReverseBitsN(b, n) ==
    IF n = 0 THEN 0
    ELSE (b % 2) * Pow2(n - 1) + ReverseBitsN(b \div 2, n - 1)

\* the byte with its bits in the order they have
KeepBits(b) == b

\* u8::reverse_bits
ReverseBits(b) == ReverseBitsN(b, 8)

\* u16::from_be_bytes([hi, lo])
FromBeBytes(hi, lo) == hi * 256 + lo

\* the bytes in little-endian order
ToLeBytes(value) == << value % 256, (value % 65536) \div 256 >>

\* (value as u16).to_be_bytes()
ToBeBytes(value) == << (value % 65536) \div 256, value % 256 >>

\* Vec<u8> indexing of the 0x1000-byte memory: any other index panics
InMemory(a) == a >= 0 /\ a < MEMORY_SIZE

\* memory after `vec![0; 0x1000]` and the copy of FONT_DATA to its start
FontByte(a) == IF a < Len(FONT_DATA) THEN FONT_DATA[a + 1] ELSE 0

\* self.memory[a]
ReadByte(mem, a) == IF a \in DOMAIN mem THEN mem[a] ELSE FontByte(a)

\* self.memory[a] = byte
WriteByte(mem, a, byte) ==
    IF byte /= FontByte(a) THEN (a :> byte) @@ mem
    ELSE IF a \in DOMAIN mem THEN [ c \in (DOMAIN mem) \ { a } |-> mem[c] ]
    ELSE mem

\* Option<u8>: None is the empty sequence, Some(k) is <<k>>
None == << >>

Some(k) == << k >>

\* ------------------------------------------------------------------------
\* State
\* ------------------------------------------------------------------------

VARIABLES
    v,          \* Chip8.v: the registers V0..VF
    i,          \* Chip8.i: the index register
    pc,         \* Chip8.pc
    sp,         \* Chip8.sp
    at,         \* Chip8.at: the sound timer
    dt,         \* Chip8.dt: the delay timer
    memory,     \* Chip8.memory
    cycles,     \* Chip8.cycles
    halted,     \* Chip8.halted
    pixels,     \* Display.pixels, row-major
    dirty,      \* Display.dirty
    canvas,     \* the frame Display::present last pushed: its lit cells
    key_status, \* Input.key_status
    last_key,   \* Input.last_key
    quit,       \* Input.quit
    playing,    \* the audio device: resumed (TRUE) or paused
    queue,      \* the events pending in the host's event pump
    loc,        \* the position of Chip8::run
    wait_x,     \* the local x of Chip8::step while Fx0A waits for a key
    events,     \* events the host has still to deliver in this run
    hist        \* history: open calls, timer values last written and ticks since

vars == << v, i, pc, sp, at, dt, memory, cycles, halted, pixels, dirty, canvas,
           key_status, last_key, quit, playing, queue, loc, wait_x, events, hist >>

\* the fields Chip8::step can change, as one record
Machine ==
    [ v |-> v, i |-> i, pc |-> pc, sp |-> sp, at |-> at, dt |-> dt,
      memory |-> memory, halted |-> halted, pixels |-> pixels, dirty |-> dirty,
      last_key |-> last_key, wait_x |-> wait_x, loc |-> "timers" ]

\* a panic inside a handler: the process ends
Panicked == [ Machine EXCEPT !.loc = "fault" ]

\* ------------------------------------------------------------------------
\* Display (src/src/display.rs)
\* ------------------------------------------------------------------------

\* Vec<u8> indexing of the w * h pixels: any other index panics
InDisplay(c) == c >= 0 /\ c < DISPLAY_W * DISPLAY_H

\* self.pixels[c]
PixelAt(px, c) == IF c \in DOMAIN px THEN px[c] ELSE 0

\* a write that stores 2 for a lit pixel
SetPixelDouble(px, c, value) == (c :> 2 * value) @@ px

\* a write that can only light a pixel
SetPixelOn(px, c, value) == (c :> 1) @@ px

\* self.pixels[c] = value
SetPixel(px, c, value) ==
    IF value /= 0 THEN (c :> value) @@ px
    ELSE IF c \in DOMAIN px THEN [ d \in (DOMAIN px) \ { c } |-> px[d] ]
    ELSE px

\* Display::new: pixels: vec![0; w * h]
BlankPixels == << >>

\* Display::clear_screen: every pixel to 0
ClearScreen(px) == BlankPixels

\* the cells Display::present fills: those whose pixel is not 0
Lit(px) == { c \in DOMAIN px : px[c] /= 0 }

RECURSIVE DrawRow(_, _, _, _, _, _)
\* The inner loop of Display::draw_sprite, `for dx in 0..8`, from dx on:
\* `bits` is the reversed sprite byte shifted right dx times, `row` the index
\* of the first cell of the row.  A cell index outside the vector panics.
\* A cell holding neither 0 nor 1 reaches unreachable_unchecked, undefined
\* behaviour: the build then takes the arm `arm` (0 or 1) of the match.
DrawRow(acc, bits, row, x, dx, arm) ==
    IF dx = 8 \/ acc.panic THEN acc
    ELSE
        LET index == row + (x + dx)
            cell == PixelAt(acc.pixels, index)
        IN  IF bits % 2 = 0 THEN DrawRow(acc, bits \div 2, row, x, dx + 1, arm)
            ELSE IF ~InDisplay(index)
            THEN [ acc EXCEPT !.panic = TRUE ]
            ELSE IF cell = 0 \/ (cell /= 1 /\ arm = 0)
            THEN DrawRow([ acc EXCEPT !.pixels = SetPixel(@, index, 1) ],
                         bits \div 2, row, x, dx + 1, arm)
            ELSE DrawRow([ acc EXCEPT !.pixels = SetPixel(@, index, 0), !.toggled_off = TRUE ],
                         bits \div 2, row, x, dx + 1, arm)

RECURSIVE DrawRows(_, _, _, _, _, _)
\* the outer loop of Display::draw_sprite, `for dy in 0..sprite.len()`, from dy on
DrawRows(acc, sprite, x, y, dy, arm) ==
    IF dy = Len(sprite) \/ acc.panic THEN acc
    ELSE DrawRows(DrawRow(acc, ReverseBits(sprite[dy + 1]), (y + dy) * DISPLAY_W, x, 0, arm),
                  sprite, x, y, dy + 1, arm)

\* Display::draw_sprite(sprite, x, y): the pixels, the value returned, or a panic
DrawSprite(px, sprite, x, y, arm) ==
    DrawRows([ pixels |-> px, toggled_off |-> FALSE, panic |-> FALSE ], sprite, x, y, 0, arm)

\* ------------------------------------------------------------------------
\* Keypad (src/src/input.rs)
\* ------------------------------------------------------------------------

Keys == 0..15

\* The events the host's pump can hold.  Key repeats and keys outside the
\* keymap fall to the `_ => ()` arm of handle_input and are left out.
QuitEvent == [ type |-> "Quit", key |-> 0 ]

KeyDown(k) == [ type |-> "KeyDown", key |-> k ]

KeyUp(k) == [ type |-> "KeyUp", key |-> k ]

HostEvents == { QuitEvent } \cup { KeyDown(k) : k \in 0..MaxKey } \cup { KeyUp(k) : k \in 0..MaxKey }

\* the fields of Input as one record
InputState == [ key_status |-> key_status, last_key |-> last_key, quit |-> quit ]

\* Input::key_down
key_down(inp, value) ==
    [ inp EXCEPT !.key_status = [ @ EXCEPT ![value] = TRUE ], !.last_key = Some(value) ]

\* a key-up that latches the key as a key-down does
KeyUpLatches(inp, value) ==
    [ inp EXCEPT !.key_status = [ @ EXCEPT ![value] = FALSE ], !.last_key = Some(value) ]

\* Input::key_up
key_up(inp, value) == [ inp EXCEPT !.key_status = [ @ EXCEPT ![value] = FALSE ] ]

\* one arm of the match of Input::handle_input
HandleEvent(inp, event) ==
    IF event.type = "Quit" THEN [ inp EXCEPT !.quit = TRUE ]
    ELSE IF event.type = "KeyDown" THEN key_down(inp, event.key)
    ELSE IF event.type = "KeyUp" THEN key_up(inp, event.key)
    ELSE inp

RECURSIVE HandleInput(_, _)
\* Input::handle_input: every pending event, in order
HandleInput(inp, pending) ==
    IF pending = << >> THEN inp
    ELSE HandleInput(HandleEvent(inp, Head(pending)), Tail(pending))

\* Input::is_key_pressed(key): reads slot `key` of key_status ([bool; 16])
KeyInRange(key) == key \in Keys

is_key_pressed(status, key) == status[key]

\* ------------------------------------------------------------------------
\* Interpreter (src/src/chip8.rs)
\* ------------------------------------------------------------------------

OpNibble(opcode) == Bits(opcode, 12, 16)

XNibble(opcode) == Bits(opcode, 8, 12)

YNibble(opcode) == Bits(opcode, 4, 8)

NNibble(opcode) == Bits(opcode, 0, 4)

Address(opcode) == Bits(opcode, 0, 12)

Value(opcode) == Bits(opcode, 0, 8)

\* The arms of the match of Chip8::step, in the order of the source: the
\* first arm that matches the four nibbles is taken.
MatchArm(opcode) ==
    LET op == OpNibble(opcode)
        x == XNibble(opcode)
        y == YNibble(opcode)
        n == NNibble(opcode)
    IN  IF op = 0 /\ x = 0 /\ y = 14 /\ n = 0 THEN "cls"
        ELSE IF op = 0 /\ x = 0 /\ y = 14 /\ n = 14 THEN "ret"
        ELSE IF op = 0 THEN "sys"
        ELSE IF op = 1 THEN "jp"
        ELSE IF op = 2 THEN "call"
        ELSE IF op = 3 THEN "se"
        ELSE IF op = 4 THEN "sne"
        ELSE IF op = 5 /\ n = 0 THEN "se_v"
        ELSE IF op = 6 THEN "ld"
        ELSE IF op = 7 THEN "add"
        ELSE IF op = 8 /\ n = 0 THEN "ld_v"
        ELSE IF op = 8 /\ n = 1 THEN "or"
        ELSE IF op = 8 /\ n = 2 THEN "and"
        ELSE IF op = 8 /\ n = 3 THEN "xor"
        ELSE IF op = 8 /\ n = 4 THEN "add_v"
        ELSE IF op = 8 /\ n = 5 THEN "sub"
        ELSE IF op = 8 /\ n = 6 THEN "shr"
        ELSE IF op = 8 /\ n = 7 THEN "subn"
        ELSE IF op = 8 /\ n = 14 THEN "shl"
        ELSE IF op = 9 /\ n = 0 THEN "sne_v"
        ELSE IF op = 10 THEN "ld_i"
        ELSE IF op = 11 THEN "jp_v0"
        ELSE IF op = 12 THEN "rnd"
        ELSE IF op = 13 THEN "drw"
        ELSE IF op = 14 /\ y = 9 /\ n = 14 THEN "skp"
        ELSE IF op = 14 /\ y = 10 /\ n = 1 THEN "sknp"
        ELSE IF op = 15 /\ y = 0 /\ n = 7 THEN "ld_vx_dt"
        ELSE IF op = 15 /\ y = 0 /\ n = 10 THEN "ld_vx_k"
        ELSE IF op = 15 /\ y = 1 /\ n = 5 THEN "ld_dt_vx"
        ELSE IF op = 15 /\ y = 1 /\ n = 8 THEN "ld_st_vx"
        ELSE IF op = 15 /\ y = 1 /\ n = 14 THEN "add_i"
        ELSE IF op = 15 /\ y = 2 /\ n = 9 THEN "ld_f"
        ELSE IF op = 15 /\ y = 3 /\ n = 3 THEN "ld_b"
        ELSE IF op = 15 /\ y = 5 /\ n = 5 THEN "ld_mem_v"
        ELSE IF op = 15 /\ y = 6 /\ n = 5 THEN "ld_v_mem"
        ELSE "unknown"

\* a match whose 5xy0 arm is written (0x5, ..)
DecodeLoose(opcode) == IF OpNibble(opcode) = 5 THEN "se_v" ELSE MatchArm(opcode)

\* the instruction a fetched word is dispatched to
Decode(opcode) == MatchArm(opcode)

\* rand::random::<u8>()
RandomBytes == (0..MaxRandom) \cup { 255 }

\* self.pc += 2 (pc + 2 of the fetch, and again of a taken skip)
Advance(p) == p + 2

\* a skip taken whatever the condition
SkipAlways(s, cond) == [ s EXCEPT !.pc = Advance(s.pc) ]

SkipIf(s, cond) == IF cond THEN [ s EXCEPT !.pc = Advance(s.pc) ] ELSE s

\* 00EE: the address is read at memory[sp], memory[sp + 1]; then sp -= 2,
\* which overflows below 2: a debug build panics, a release build wraps.
Ret(s) ==
    IF ~InMemory(s.sp) \/ ~InMemory(s.sp + 1) THEN { Panicked }
    ELSE
        LET address == FromBeBytes(ReadByte(s.memory, s.sp), ReadByte(s.memory, s.sp + 1))
            done == [ s EXCEPT !.sp = s.sp - 2, !.pc = address ]
        IN  IF s.sp < 2 THEN { Panicked, done } ELSE { done }

\* the slot a call writes: self.sp += 2 comes before the write
PushSlot(stack) == stack + 2

\* 2nnn: sp += 2; the return address (pc, already advanced) is written
\* big-endian at memory[sp], memory[sp + 1]; pc = nnn
Call(s, address) ==
    LET slot == PushSlot(s.sp)
        bytes == ToBeBytes(s.pc)
    IN  IF ~InMemory(slot) \/ ~InMemory(slot + 1) THEN Panicked
        ELSE [ s EXCEPT !.sp = slot,
                        !.memory = WriteByte(WriteByte(@, slot, bytes[1]), slot + 1, bytes[2]),
                        !.pc = address ]

\* the flag register is written after (arithmetic) or before (shifts) Vx
SetVx(regs, x, value) == [ regs EXCEPT ![x] = value ]

SetVF(regs, flag) == [ regs EXCEPT ![15] = flag ]

\* an add that never reports a carry
AddVNoCarry(regs, x, y) == SetVF(SetVx(regs, x, (regs[x] + regs[y]) % 256), 0)

\* 8xy4: u8::overflowing_add
AddV(regs, x, y) ==
    LET sum == regs[x] + regs[y]
    IN  SetVF(SetVx(regs, x, sum % 256), IF sum > 255 THEN 1 ELSE 0)

\* a subtraction that reports no borrow only when a > b
SubVStrict(regs, x, a, b) ==
    SetVF(SetVx(regs, x, (a - b) % 256), IF a > b THEN 1 ELSE 0)

\* 8xy5 (a = Vx, b = Vy) and 8xy7 (a = Vy, b = Vx): u8::overflowing_sub
SubV(regs, x, a, b) ==
    SetVF(SetVx(regs, x, (a - b) % 256), IF ~(a < b) THEN 1 ELSE 0)

\* a right shift that writes the flag after the shifted value
ShrVFlagLast(regs, x) == SetVF(SetVx(regs, x, regs[x] \div 2), BitAnd(regs[x], 1))

\* 8xy6
ShrV(regs, x) ==
    LET flagged == SetVF(regs, BitAnd(regs[x], 1))
    IN  SetVx(flagged, x, flagged[x] \div 2)

\* a left shift whose flag is the bit shifted out as 0 or 1
ShlVNormalised(regs, x) ==
    LET flagged == SetVF(regs, regs[x] \div 128)
    IN  SetVx(flagged, x, (flagged[x] * 2) % 256)

\* 8xyE
ShlV(regs, x) ==
    LET flagged == SetVF(regs, BitAnd(regs[x], 128))
    IN  SetVx(flagged, x, (flagged[x] * 2) % 256)

\* the slice &self.memory[self.i..][..n] of Dxyn
SpriteAt(mem, index, n) == [ k \in 1 .. n |-> ReadByte(mem, index + k - 1) ]

\* a draw that does not mark the display dirty
DrawUnflagged(s, x, y, n, arm) ==
    IF s.i < 0 \/ s.i + n > MEMORY_SIZE THEN Panicked
    ELSE
        LET drawn == DrawSprite(s.pixels, SpriteAt(s.memory, s.i, n), s.v[x], s.v[y], arm)
        IN  IF drawn.panic THEN Panicked
            ELSE [ s EXCEPT !.pixels = drawn.pixels,
                            !.v = SetVF(s.v, IF drawn.toggled_off THEN 1 ELSE 0) ]

\* Dxyn: the sprite is the slice memory[i..][..n], which panics past the
\* end of memory; VF is the value draw_sprite returns
Draw(s, x, y, n, arm) ==
    IF s.i < 0 \/ s.i + n > MEMORY_SIZE THEN Panicked
    ELSE
        LET sprite == SpriteAt(s.memory, s.i, n)
            drawn == DrawSprite(s.pixels, sprite, s.v[x], s.v[y], arm)
        IN  IF drawn.panic THEN Panicked
            ELSE [ s EXCEPT !.pixels = drawn.pixels, !.dirty = TRUE,
                            !.v = SetVF(s.v, IF drawn.toggled_off THEN 1 ELSE 0) ]

\* the three digits stored with the ones first
BcdReversed(s, x) ==
    IF ~InMemory(s.i) \/ ~InMemory(s.i + 1) \/ ~InMemory(s.i + 2) THEN Panicked
    ELSE [ s EXCEPT !.memory = WriteByte(WriteByte(WriteByte(@, s.i, s.v[x] % 10),
                                                   s.i + 1, (s.v[x] \div 10) % 10),
                                         s.i + 2, s.v[x] \div 100) ]

\* Fx33: hundreds, tens, ones of Vx by repeated % 10 and / 10
Bcd(s, x) ==
    LET ones == s.v[x] % 10
        tens == (s.v[x] \div 10) % 10
        hundreds == (s.v[x] \div 10) \div 10
    IN  IF ~InMemory(s.i) \/ ~InMemory(s.i + 1) \/ ~InMemory(s.i + 2) THEN Panicked
        ELSE [ s EXCEPT !.memory = WriteByte(WriteByte(WriteByte(@, s.i, hundreds),
                                                           s.i + 1, tens), s.i + 2, ones) ]

\* a store of V0 alone that moves I as Fx55 does
StoreFirst(s, k, x) ==
    IF ~InMemory(s.i) \/ ~InMemory(s.i + x) THEN Panicked
    ELSE [ s EXCEPT !.memory = WriteByte(@, s.i, s.v[0]), !.i = s.i + x + 1 ]

RECURSIVE StoreRegs(_, _, _)
\* Fx55: for k in 0..=x { memory[i] = v[k]; i += 1 }, from register k on
StoreRegs(s, k, x) ==
    IF k > x THEN s
    ELSE IF ~InMemory(s.i) THEN Panicked
    ELSE StoreRegs([ s EXCEPT !.memory = WriteByte(@, s.i, s.v[k]), !.i = s.i + 1 ],
                   k + 1, x)

RECURSIVE LoadRegsExclusive(_, _, _)
\* a load of the registers below Vx only: for k in 0..x
LoadRegsExclusive(s, k, x) ==
    IF k >= x THEN s
    ELSE IF ~InMemory(s.i) THEN Panicked
    ELSE LoadRegsExclusive([ s EXCEPT !.v = [ @ EXCEPT ![k] = ReadByte(s.memory, s.i) ],
                                      !.i = s.i + 1 ],
                           k + 1, x)

RECURSIVE LoadRegs(_, _, _)
\* Fx65: for k in 0..=x { v[k] = memory[i]; i += 1 }, from register k on
LoadRegs(s, k, x) ==
    IF k > x THEN s
    ELSE IF ~InMemory(s.i) THEN Panicked
    ELSE LoadRegs([ s EXCEPT !.v = [ @ EXCEPT ![k] = ReadByte(s.memory, s.i) ], !.i = s.i + 1 ],
                  k + 1, x)

\* Ex9E / ExA1: skip when the key Vx is (want = TRUE) or is not pressed
SkipKey(s, status, x, want) ==
    IF ~KeyInRange(s.v[x]) THEN Panicked
    ELSE SkipIf(s, is_key_pressed(status, s.v[x]) = want)

\* Unknown and sys words: the interpreter halts
Halt(s) == [ s EXCEPT !.halted = TRUE ]

\* The outcomes of the dispatch of one fetched word on the machine s, whose
\* pc is already advanced.
Execute(s, opcode, status) ==
    LET kind == Decode(opcode)
        x == XNibble(opcode)
        y == YNibble(opcode)
        n == NNibble(opcode)
        address == Address(opcode)
        value == Value(opcode)
    IN  CASE kind = "cls" -> { [ s EXCEPT !.pixels = ClearScreen(s.pixels), !.dirty = TRUE ] }
          [] kind = "ret" -> Ret(s)
          [] kind = "sys" -> { Halt(s) }
          [] kind = "jp" -> { [ s EXCEPT !.pc = address ] }
          [] kind = "call" -> { Call(s, address) }
          [] kind = "se" -> { SkipIf(s, s.v[x] = value) }
          [] kind = "sne" -> { SkipIf(s, s.v[x] /= value) }
          [] kind = "se_v" -> { SkipIf(s, s.v[x] = s.v[y]) }
          [] kind = "ld" -> { [ s EXCEPT !.v = SetVx(s.v, x, value) ] }
          [] kind = "add" -> { [ s EXCEPT !.v = SetVx(s.v, x, (s.v[x] + value) % 256) ] }
          [] kind = "ld_v" -> { [ s EXCEPT !.v = SetVx(s.v, x, s.v[y]) ] }
          [] kind = "or" -> { [ s EXCEPT !.v = SetVx(s.v, x, BitOr(s.v[x], s.v[y])) ] }
          [] kind = "and" -> { [ s EXCEPT !.v = SetVx(s.v, x, BitAnd(s.v[x], s.v[y])) ] }
          [] kind = "xor" -> { [ s EXCEPT !.v = SetVx(s.v, x, BitXor(s.v[x], s.v[y])) ] }
          [] kind = "add_v" -> { [ s EXCEPT !.v = AddV(s.v, x, y) ] }
          [] kind = "sub" -> { [ s EXCEPT !.v = SubV(s.v, x, s.v[x], s.v[y]) ] }
          [] kind = "shr" -> { [ s EXCEPT !.v = ShrV(s.v, x) ] }
          [] kind = "subn" -> { [ s EXCEPT !.v = SubV(s.v, x, s.v[y], s.v[x]) ] }
          [] kind = "shl" -> { [ s EXCEPT !.v = ShlV(s.v, x) ] }
          [] kind = "sne_v" -> { SkipIf(s, s.v[x] /= s.v[y]) }
          [] kind = "ld_i" -> { [ s EXCEPT !.i = address ] }
          [] kind = "jp_v0" -> { [ s EXCEPT !.pc = s.v[0] + address ] }
          [] kind = "rnd" ->
                { [ s EXCEPT !.v = SetVx(s.v, x, BitAnd(byte, value)) ] : byte \in RandomBytes }
          [] kind = "drw" -> { Draw(s, x, y, n, arm) : arm \in 0..1 }
          [] kind = "skp" -> { SkipKey(s, status, x, TRUE) }
          [] kind = "sknp" -> { SkipKey(s, status, x, FALSE) }
          [] kind = "ld_vx_dt" -> { [ s EXCEPT !.v = SetVx(s.v, x, s.dt) ] }
          [] kind = "ld_vx_k" -> { [ s EXCEPT !.last_key = None, !.wait_x = x, !.loc = "wait" ] }
          [] kind = "ld_dt_vx" -> { [ s EXCEPT !.dt = s.v[x] ] }
          [] kind = "ld_st_vx" -> { [ s EXCEPT !.at = s.v[x] ] }
          [] kind = "add_i" -> { [ s EXCEPT !.i = s.i + s.v[x] ] }
          [] kind = "ld_f" -> { [ s EXCEPT !.i = FONT_DATA_START + s.v[x] * FONT_DIGIT_SIZE ] }
          [] kind = "ld_b" -> { Bcd(s, x) }
          [] kind = "ld_mem_v" -> { StoreRegs(s, 0, x) }
          [] kind = "ld_v_mem" -> { LoadRegs(s, 0, x) }
          [] OTHER -> { Halt(s) }

\* a step that does not look at the halted flag
NoHaltedReturn(s) == FALSE

\* if self.halted { return Ok(()) }
HaltedReturn(s) == s.halted

\* a step that ends the run when it finds the interpreter halted
StepOutcomesEnding(s, status) ==
    IF HaltedReturn(s) THEN { [ s EXCEPT !.loc = "done" ] }
    ELSE IF ~InMemory(s.pc) \/ ~InMemory(s.pc + 1) THEN { Panicked }
    ELSE Execute([ s EXCEPT !.pc = Advance(s.pc) ],
                 FromBeBytes(ReadByte(s.memory, s.pc), ReadByte(s.memory, s.pc + 1)), status)

\* Chip8::step: the outcomes of one call on the machine s
StepOutcomes(s, status) ==
    IF HaltedReturn(s) THEN { s }
    ELSE IF ~InMemory(s.pc) \/ ~InMemory(s.pc + 1) THEN { Panicked }
    ELSE Execute([ s EXCEPT !.pc = Advance(s.pc) ],
                 FromBeBytes(ReadByte(s.memory, s.pc), ReadByte(s.memory, s.pc + 1)), status)

\* timers decremented with wrapping_sub and no test for 0
UpdateTimersWrapping(c, a, d) ==
    IF c < CYCLES_PER_SECOND \div 60
    THEN [ cycles |-> c, at |-> a, dt |-> d ]
    ELSE [ cycles |-> 0, at |-> (a - 1) % 256, dt |-> (d - 1) % 256 ]

\* Chip8::update_timers on the cycle count c and the timers a (sound), d (delay)
UpdateTimers(c, a, d) ==
    IF c < CYCLES_PER_SECOND \div 60
    THEN [ cycles |-> c, at |-> a, dt |-> d ]
    ELSE [ cycles |-> 0,
           at |-> IF a > 0 THEN a - 1 ELSE a,
           dt |-> IF d > 0 THEN d - 1 ELSE d ]

\* Chip8::new: the slice memory[PROGRAM_START..][..program.len()] exists only
\* for a program no longer than the memory above PROGRAM_START; for a longer
\* one the slice index panics and no Chip8 is constructed
Fits(program) == Len(program) <= MEMORY_SIZE - PROGRAM_START

\* Chip8::new: memory[PROGRAM_START..][..program.len()].copy_from_slice(&program)
LoadMemory(program) ==
    [ a \in { b \in PROGRAM_START .. (PROGRAM_START + Len(program) - 1) :
                program[b - PROGRAM_START + 1] /= FontByte(b) } |->
        program[a - PROGRAM_START + 1] ]

\* ------------------------------------------------------------------------
\* History kept for the claims (it decides nothing in the machine)
\* ------------------------------------------------------------------------

\* calls: one record per call not yet returned from: where the 2nnn was
\* fetched, sp before it, and whether the two bytes it wrote still hold what
\* it wrote.  at0/dt0: the value Fx18/Fx15 last wrote (0 at construction);
\* atn/dtn: the timer ticks since, saturating at MaxTicks.
\* store: the last Fx55 that returned, if any: I and the registers before it.
\* draw: the last Dxyn that returned, if any: its sprite and position, and
\* the pixels before and after it.
NoHistory ==
    [ calls |-> << >>, at0 |-> 0, atn |-> 0, dt0 |-> 0, dtn |-> 0, draw |-> << >>,
      store |-> << >> ]

Front(seq) == SubSeq(seq, 1, Len(seq) - 1)

Keep(calls, before, after) ==
    [ k \in DOMAIN calls |->
        [ calls[k] EXCEPT !.intact =
            /\ @
            /\ ReadByte(after, calls[k].sp + 2) = ReadByte(before, calls[k].sp + 2)
            /\ ReadByte(after, calls[k].sp + 3) = ReadByte(before, calls[k].sp + 3) ] ]

StepHistory(h, s, r) ==
    IF s.halted \/ r.loc = "fault" THEN h
    ELSE
        LET opcode == FromBeBytes(ReadByte(s.memory, s.pc), ReadByte(s.memory, s.pc + 1))
            kind == Decode(opcode)
            kept == Keep(h.calls, s.memory, r.memory)
        IN  CASE kind = "call" ->
                    [ h EXCEPT !.calls = Append(h.calls, [ pc |-> s.pc, sp |-> s.sp, intact |-> TRUE ]) ]
              [] kind = "ret" ->
                    [ h EXCEPT !.calls = IF @ = << >> THEN @ ELSE Front(@) ]
              [] kind = "ld_dt_vx" -> [ h EXCEPT !.dt0 = r.dt, !.dtn = 0 ]
              [] kind = "ld_st_vx" -> [ h EXCEPT !.at0 = r.at, !.atn = 0 ]
              [] kind = "ld_mem_v" ->
                    [ h EXCEPT !.calls = kept,
                               !.store = << [ i0 |-> s.i, x |-> XNibble(opcode), v |-> s.v ] >> ]
              [] kind = "drw" ->
                    [ h EXCEPT !.calls = kept,
                               !.draw = << [ sprite |-> SpriteAt(s.memory, s.i, NNibble(opcode)),
                                             x |-> s.v[XNibble(opcode)],
                                             y |-> s.v[YNibble(opcode)],
                                             before |-> s.pixels,
                                             after |-> r.pixels ] >> ]
              [] OTHER -> [ h EXCEPT !.calls = kept ]

TickHistory(h, ticked) ==
    IF ~ticked THEN h
    ELSE [ h EXCEPT !.atn = IF @ < MaxTicks THEN @ + 1 ELSE @,
                    !.dtn = IF @ < MaxTicks THEN @ + 1 ELSE @ ]

\* ------------------------------------------------------------------------
\* Programs the model is run on
\* ------------------------------------------------------------------------

\* the program image of a sequence of instruction words, big-endian
Assemble(words) ==
    [ k \in 1 .. (2 * Len(words)) |->
        IF k % 2 = 1 THEN words[(k + 1) \div 2] \div 256 ELSE words[k \div 2] % 256 ]

\* 0x200: Fx0A into V0; skip if key V0 is pressed; sknp; back to 0x200
KeyProgram == Assemble(<< 61450, 57502, 57505, 4608 >>)

\* the depth the reserved stack region is sized for
StackSlots == (PROGRAM_START - STACK_START) \div 2

\* d nested calls, each subroutine calling the next and returning: the word
\* at 0x200 + 4k calls 0x200 + 4(k + 1), the word after it is 00EE
CallChain(d) ==
    Assemble([ k \in 1 .. (2 * d + 1) |->
                 IF k % 2 = 1 /\ k < 2 * d + 1
                 THEN 8192 + PROGRAM_START + 2 * (k + 1)
                 ELSE 238 ])

\* V0 = 5, V1 = 3, delay = V0, sound = V1, then a jump to itself
TimerProgram == Assemble(<< 24581, 24835, 61461, 61720, 4616 >>)

\* jump to 0xFFE: the word there is 0000
EdgeProgram == Assemble(<< 8190 >>)

\* jump to 0xFFF: the second byte of the fetch is past the end of memory
FetchPastEnd == Assemble(<< 8191 >>)

\* I = 0xFFF, V0 = 0xFF, I += V0
IndexPastEnd == Assemble(<< 45055, 24831, 61470 >>)

\* cls; I = glyph of V0; draw it twice at (V1, V1); V1 = 60; draw at (60, 60)
DrawProgram == Assemble(<< 224, 61481, 53525, 53525, 24892, 53525 >>)

\* I = glyph of V0 = 0; draw it three times at (V1, V1) = (0, 0)
DrawThrice == Assemble(<< 61481, 53525, 53525, 53525 >>)

\* V0 = 5; V1 = 2; I = glyph of V2 = 0; draw 3 rows at (V0, V1) = (5, 2);
\* V0 = 6; draw them again at (6, 2), over part of the first
DrawAt == Assemble(<< 24581, 24834, 61993, 53267, 24582, 53267 >>)

\* I = 0x200; V0 = 60; draw 1 row at (V0, V1) = (60, 0): the sprite is the
\* byte A2 of the program itself, with bits at dx = 0, 2 and 6
WrapProgram == Assemble(<< 41472, 24636, 53265 >>)

\* V0 = 5, V1 = 3, delay = V0, sound = V1, then V2 = key (Fx0A) for ever
WaitTimerProgram == Assemble(<< 24581, 24835, 61461, 61720, 61962, 4616 >>)

\* V0 = 5, sound = V0, delay = V0, then the word 0000 after the program:
\* the interpreter halts with both timers still running
HaltProgram == Assemble(<< 24581, 61464, 61461 >>)

Run(program, n) == [ program |-> program, events |-> n ]

One == IF MaxEvents > 0 THEN 1 ELSE 0

Runs ==
    { Run(KeyProgram, MaxEvents), Run(CallChain(StackSlots), 0), Run(CallChain(2), One),
      Run(TimerProgram, One), Run(EdgeProgram, 0), Run(FetchPastEnd, 0),
      Run(IndexPastEnd, 0), Run(DrawProgram, 0), Run(WrapProgram, 0),
      Run(DrawThrice, 0), Run(DrawAt, 0), Run(HaltProgram, One) }

\* ------------------------------------------------------------------------
\* Initial state and actions
\* ------------------------------------------------------------------------

\* Chip8::new, Display::new, Input::new, Audio::new
InitOn(runs) ==
    /\ \E run \in runs :
        /\ memory = IF Fits(run.program) THEN LoadMemory(run.program) ELSE << >>
        /\ loc = IF Fits(run.program) THEN "start" ELSE "abort"
        /\ events = run.events
    /\ v = [ r \in 0..15 |-> 0 ]
    /\ i = 0
    /\ pc = PROGRAM_START
    /\ sp = STACK_START
    /\ at = 0
    /\ dt = 0
    /\ cycles = 0
    /\ halted = FALSE
    /\ pixels = BlankPixels
    /\ dirty = TRUE
    /\ canvas = {}
    /\ key_status = [ k \in Keys |-> FALSE ]
    /\ last_key = None
    /\ quit = FALSE
    /\ playing = FALSE
    /\ queue = << >>
    /\ wait_x = 0
    /\ hist = NoHistory

Init == InitOn(Runs)

\* the host puts an event in the pump of the running process
HostEvent ==
    /\ events > 0
    /\ loc \notin { "done", "fault", "abort" }
    /\ \E event \in HostEvents : queue' = Append(queue, event)
    /\ events' = events - 1
    /\ UNCHANGED << v, i, pc, sp, at, dt, memory, cycles, halted, pixels, dirty, canvas,
                    key_status, last_key, quit, playing, loc, wait_x, hist >>

\* Display::present: the lit cells are pushed, dirty is reset
Present ==
    /\ canvas' = Lit(pixels)
    /\ dirty' = FALSE

\* Chip8::run: self.display.present()? before the loop
Start ==
    /\ loc = "start"
    /\ Present
    /\ loc' = "poll"
    /\ UNCHANGED << v, i, pc, sp, at, dt, memory, cycles, halted, pixels,
                    key_status, last_key, quit, playing, queue, wait_x, events, hist >>

\* self.input.process_pending_input(): the pump is drained
Poll ==
    /\ loc = "poll"
    /\ LET inp == HandleInput(InputState, queue)
       IN  /\ key_status' = inp.key_status
           /\ last_key' = inp.last_key
           /\ quit' = inp.quit
    /\ queue' = << >>
    /\ loc' = "check"
    /\ UNCHANGED << v, i, pc, sp, at, dt, memory, cycles, halted, pixels, dirty, canvas,
                    playing, wait_x, events, hist >>

\* a loop that does not break on quit
IgnoreQuit(q) == "step"

\* where run goes from `if self.input.quit { break; }`
AfterQuitCheck(q) == IF q THEN "done" ELSE "step"

CheckQuit ==
    /\ loc = "check"
    /\ loc' = AfterQuitCheck(quit)
    /\ UNCHANGED << v, i, pc, sp, at, dt, memory, cycles, halted, pixels, dirty, canvas,
                    key_status, last_key, quit, playing, queue, wait_x, events, hist >>

\* self.step()?: up to its return, or to the polling loop of wait_for_input
Step ==
    /\ loc = "step"
    /\ \E r \in StepOutcomes(Machine, key_status) :
        /\ v' = r.v
        /\ i' = r.i
        /\ pc' = r.pc
        /\ sp' = r.sp
        /\ at' = r.at
        /\ dt' = r.dt
        /\ memory' = r.memory
        /\ halted' = r.halted
        /\ pixels' = r.pixels
        /\ dirty' = r.dirty
        /\ last_key' = r.last_key
        /\ wait_x' = r.wait_x
        /\ loc' = r.loc
        /\ hist' = StepHistory(hist, Machine, r)
    /\ UNCHANGED << cycles, canvas, key_status, quit, playing, queue, events >>

\* One iteration of `while self.last_key.is_none() { self.handle_input(); .. }`
\* of Input::wait_for_input; when a key is latched the call returns it and
\* Fx0A stores it in Vx.
WaitPoll ==
    /\ loc = "wait"
    /\ LET inp == HandleInput(InputState, queue)
       IN  /\ key_status' = inp.key_status
           /\ last_key' = inp.last_key
           /\ quit' = inp.quit
           /\ IF inp.last_key = None
              THEN /\ loc' = "wait"
                   /\ v' = v
              ELSE /\ loc' = "timers"
                   /\ v' = SetVx(v, wait_x, inp.last_key[1])
    /\ queue' = << >>
    /\ UNCHANGED << i, pc, sp, at, dt, memory, cycles, halted, pixels, dirty, canvas,
                    playing, wait_x, events, hist >>

\* self.cycles += 1; self.update_timers()
Timers ==
    /\ loc = "timers"
    /\ LET t == UpdateTimers(cycles + 1, at, dt)
       IN  /\ cycles' = t.cycles
           /\ at' = t.at
           /\ dt' = t.dt
           /\ hist' = TickHistory(hist, t.cycles = 0)
    /\ loc' = "present"
    /\ UNCHANGED << v, i, pc, sp, memory, halted, pixels, dirty, canvas,
                    key_status, last_key, quit, playing, queue, wait_x, events >>

\* if self.display.needs_presenting() { self.display.present()?; }
PresentIfDirty ==
    /\ loc = "present"
    /\ IF dirty THEN Present ELSE UNCHANGED << canvas, dirty >>
    /\ loc' = "tone"
    /\ UNCHANGED << v, i, pc, sp, at, dt, memory, cycles, halted, pixels,
                    key_status, last_key, quit, playing, queue, wait_x, events, hist >>

\* a tone that is started whatever the sound timer reads
ToneAlways(timer) == TRUE

\* Audio::stop when the sound timer is 0, Audio::start otherwise
ToneOn(timer) == timer /= 0

\* if self.at == 0 { self.audio.stop() } else { self.audio.start() }; sleep
Tone ==
    /\ loc = "tone"
    /\ playing' = ToneOn(at)
    /\ loc' = "poll"
    /\ UNCHANGED << v, i, pc, sp, at, dt, memory, cycles, halted, pixels, dirty, canvas,
                    key_status, last_key, quit, queue, wait_x, events, hist >>

\* the steps of the process itself
Driver == Start \/ Poll \/ CheckQuit \/ Step \/ WaitPoll \/ Timers \/ PresentIfDirty \/ Tone

Next == Driver \/ HostEvent

Spec == Init /\ [][Next]_vars

\* one-word programs: every op, y and n nibble, x from 0 and the top of the range
OneWordPrograms ==
    { Assemble(<< op * 4096 + x * 256 + y * 16 + n >>) :
        op \in 0..15, x \in { 0 } \cup ((15 - XSpread) .. 15), y \in 0..15, n \in 0..15 }

DecodeRuns == { Run(program, 0) : program \in OneWordPrograms } \cup { Run(KeyProgram, MaxEvents) }

\* every instruction word as the first instruction of a program
SpecDecode == InitOn(DecodeRuns) /\ [][Next]_vars

\* The process keeps running: thread::sleep returns and the loops go on.
\* Nothing makes the host deliver an event.
FairSpec == InitOn({ Run(KeyProgram, MaxEvents) }) /\ [][Next]_vars /\ WF_vars(Driver)

\* a program file of len bytes: a jump to itself (1200) at its start, zeros,
\* and FF as its last byte
Image(len) ==
    [ k \in 1 .. len |-> IF k = len /\ len > 2 THEN 255 ELSE IF k = 1 THEN 18 ELSE 0 ]

\* the longest program that fits, and the lengths around it
LoadLengths ==
    { 0, 1, 2, 3 } \cup ((MEMORY_SIZE - PROGRAM_START - 1) .. (MEMORY_SIZE - PROGRAM_START + LoadExcess))

LoadRuns == { Run(Image(len), 0) : len \in LoadLengths } \cup { Run(KeyProgram, MaxEvents) }

\* program files of every length around the end of memory
SpecLoad == InitOn(LoadRuns) /\ [][Next]_vars

\* register values at and around the ends and the middle of a byte
ArithBytes ==
    (0 .. ByteSpread) \cup (127 .. (127 + ByteSpread)) \cup ((255 - ByteSpread) .. 255)

\* Vx = a; Vy = b; 8xyN, for N of 8xy4, 8xy5, 8xy6, 8xy7, 8xyE; x is a
\* general register or F; y is another register, x itself (then
\* Vx = Vy = b), or F
ArithPrograms ==
    { Assemble(<< 6 * 4096 + x * 256 + a, 6 * 4096 + y * 256 + b,
                  8 * 4096 + x * 256 + y * 16 + n >>) :
        x \in { 0, 14, 15 }, y \in { 1, 14, 15 }, n \in { 4, 5, 6, 7, 14 },
        a \in ArithBytes, b \in ArithBytes }

ArithRuns == { Run(program, 0) : program \in ArithPrograms } \cup { Run(KeyProgram, MaxEvents) }

\* the arithmetic instructions on registers loaded by the program
SpecArith == InitOn(ArithRuns) /\ [][Next]_vars

\* the x of the Fx55 / Fx65 / Fx33 programs
MemRegs == { 0, 1 } \cup ((15 - XSpread) .. 15)

\* V0 = a, V1 = b, VF = a; I = i0; Fx55; V0 = 255 - a, V1 = a, VF = b;
\* I = i0; Fx65
RoundTrip(x, i0, a, b) ==
    Assemble(<< 24576 + a, 24832 + b, 28416 + a, 40960 + i0, 61525 + x * 256,
                24576 + (255 - a), 24832 + a, 28416 + b, 40960 + i0, 61541 + x * 256 >>)

\* the stores and loads start at 0x300 and, the last byte being that of
\* address 0xFFF, at 0xFFF - x
RoundTrips ==
    { RoundTrip(x, i0, a, b) :
        x \in MemRegs, i0 \in { 768, MEMORY_SIZE - 1 - 15, MEMORY_SIZE - 1 - 1, MEMORY_SIZE - 1 },
        a \in ArithBytes, b \in ArithBytes }

\* Vx = a; I = i0; Fx33, the three bytes ending at 0xFFF at the latest
BcdPrograms ==
    { Assemble(<< 24576 + x * 256 + a, 40960 + i0, 61491 + x * 256 >>) :
        x \in MemRegs, i0 \in { 768, MEMORY_SIZE - 3 }, a \in ArithBytes \cup { 9, 10, 99, 100, 199, 200 } }

\* I = 0x200; Fx65: the registers are loaded with the program itself
LoadPrograms == { Assemble(<< 41472, 61541 + x * 256 >>) : x \in MemRegs }

MemRuns ==
    { Run(program, 0) : program \in RoundTrips \cup BcdPrograms \cup LoadPrograms }
    \cup { Run(KeyProgram, MaxEvents) }

\* the instructions that move registers to and from memory
SpecMem == InitOn(MemRuns) /\ [][Next]_vars

\* the instructions that set pc, and some that do not: 3xkk and 4xkk with
\* kk = a and kk = a + 1, 5xy0, 9xy0, Bnnn, 1nnn, 2nnn, 00EE, Annn, 8xy4,
\* Fx0A, and the halting words 0000 and 5xy1
FlowWords(a) ==
    { 12288 + a, 12288 + a + 1, 16384 + a, 16384 + a + 1, 20496, 36880,
      45824, 49151, 4864, 9024, 238, 41728, 32788, 61450, 0, 20497 }

\* the skips on keys: Ex9E and ExA1 on V0 and on V1
KeyWords == { 57502, 57505, 57758, 57761 }

\* V0 = a; V1 = b; one of the words
FlowRuns ==
    { Run(Assemble(<< 24576 + a, 24832 + b, word >>), 0) :
        a \in { 0, 1 }, b \in { 0, 1 }, word \in FlowWords(0) \cup FlowWords(1) }
    \cup { Run(Assemble(<< 24576 + a, 24832 + b, word >>), One) :
              a \in { 0, 1 }, b \in { 0, 1 }, word \in KeyWords }
    \cup { Run(KeyProgram, MaxEvents), Run(CallChain(2), 0) }

\* the instructions that decide where execution goes on
SpecFlow == InitOn(FlowRuns) /\ [][Next]_vars

\* the same scheduling, on the program that sets both timers and then waits
FairWaitSpec ==
    InitOn({ Run(WaitTimerProgram, MaxEvents) }) /\ [][Next]_vars /\ WF_vars(Driver)

\* ------------------------------------------------------------------------
\* Claims
\* ------------------------------------------------------------------------

\* a call of Chip8::step has happened in this step of the model
Stepped == loc = "step" /\ loc' /= "step"

\* the word a step in this state fetches
Fetchable == InMemory(pc) /\ InMemory(pc + 1)

Opcode == FromBeBytes(ReadByte(memory, pc), ReadByte(memory, pc + 1))

\* C1: a step of a halted interpreter returns success and changes neither
\* the registers, I, pc, sp, the timers, memory, the framebuffer nor halted;
\* and no step of anything clears halted.
C1_HaltedStepIsNoOp ==
    [][ /\ (Stepped /\ halted) =>
            /\ loc' = "timers"
            /\ UNCHANGED << v, i, pc, sp, at, dt, memory, pixels, halted >>
        /\ halted => halted' ]_vars

\* C1: the edge program has halted at 0xFFE with pc = 0x1000, and steps have
\* been made since (three timer ticks: six iterations of the loop)
C1_Witness == halted /\ pc = MEMORY_SIZE /\ loc = "timers" /\ hist.atn = 3

\* the words the claim lists as matching no instruction
C2_Undefined(word) ==
    LET op == word \div 4096
        n == word % 16
        kk == word % 256
    IN  \/ op = 0 /\ word \notin { 224, 238 }
        \/ op \in { 5, 9 } /\ n /= 0
        \/ op = 8 /\ n \in { 8, 9, 10, 11, 12, 13, 15 }
        \/ op = 14 /\ kk \notin { 158, 161 }
        \/ op = 15 /\ kk \notin { 7, 10, 21, 24, 30, 41, 51, 85, 101 }

\* C2: a step of a running interpreter sets halted exactly when the word it
\* fetches is one of the words the claim lists as undefined.
C2_HaltsIffUndefined ==
    [][ (Stepped /\ ~halted /\ Fetchable) => (halted' <=> C2_Undefined(Opcode)) ]_vars

\* C2: the one-word program 5001 (5xyN with N /= 0) has halted on its first step
C2_Witness ==
    /\ halted
    /\ pc = PROGRAM_START + 2
    /\ ReadByte(memory, PROGRAM_START) = 80
    /\ ReadByte(memory, PROGRAM_START + 1) = 1

\* C3: pc and I lie in [0, 4096) in every reachable state.
C3_PcAndIndexInRange == pc \in 0 .. 4095 /\ i \in 0 .. 4095

\* C4: no step faults: the process never panics.
C4_StepNeverFaults == loc /= "fault"

\* the call a return in this state is matched with
OpenCall == hist.calls[Len(hist.calls)]

\* C5: a 00EE matched with a 2nnn at nesting depth 1..16, the bytes that call
\* saved still as written, sets pc to the address after the 2nnn and sp to
\* its value before the call.
C5_ReturnMatchesCall ==
    [][ ( /\ Stepped /\ ~halted /\ Fetchable
          /\ Decode(Opcode) = "ret"
          /\ Len(hist.calls) \in 1 .. 16
          /\ OpenCall.intact )
        => /\ pc' = OpenCall.pc + 2
           /\ sp' = OpenCall.sp
           /\ loc' = "timers" ]_vars

\* C5: sixteen nested calls have been made (the sixteenth wrote its return
\* address 0x023E over the word at 0x200) and all sixteen have returned
C5_Witness ==
    /\ hist.calls = << >>
    /\ pc = PROGRAM_START + 2
    /\ sp = STACK_START
    /\ ReadByte(memory, PROGRAM_START) = 2
    /\ ReadByte(memory, PROGRAM_START + 1) = 62

\* C6: while calls are made from the empty stack and nest at most 16 deep,
\* the two bytes a 2nnn writes lie in [0x1E0, 0x200).
C6_CallsStayInStackRegion ==
    [][ ( /\ Stepped /\ ~halted /\ Fetchable
          /\ Decode(Opcode) = "call"
          /\ loc' /= "fault"
          /\ sp = STACK_START + 2 * Len(hist.calls)
          /\ Len(hist.calls) + 1 <= 16 )
        => \A a \in (DOMAIN memory) \cup (DOMAIN memory') :
              ReadByte(memory', a) /= ReadByte(memory, a) => a \in 480 .. 511 ]_vars

\* C7: sp is 0x1DE in the initial state; a step adds 2 to it on 2nnn (before
\* the write at memory[sp]), subtracts 2 on 00EE, and leaves it alone on
\* every other word.
C7_StackPointerMoves ==
    [][ /\ loc = "start" => sp = 480 - 2
        /\ (Stepped /\ ~halted /\ Fetchable /\ loc' /= "fault") =>
            sp' = sp + ( IF Opcode \div 4096 = 2 THEN 2
                         ELSE IF Opcode = 238 THEN -2
                         ELSE 0 ) ]_vars

\* a quit event is in the pump or has been seen
QuitRequested == quit \/ \E k \in DOMAIN queue : queue[k].type = "Quit"

\* C8: once quit is requested, run returns, also when the request comes
\* while Fx0A waits and no key is pressed.
C8_QuitEndsRun == QuitRequested ~> (loc = "done")

\* the positions run can go to from position l
C9_After(l, q) ==
    CASE l = "start" -> { "poll" }
      [] l = "poll" -> { "check" }
      [] l = "check" -> IF q THEN { "done" } ELSE { "step" }
      [] l = "step" -> { "timers", "wait", "fault" }
      [] l = "wait" -> { "wait", "timers" }
      [] l = "timers" -> { "present" }
      [] l = "present" -> { "tone" }
      [] l = "tone" -> { "poll" }
      [] OTHER -> { }

\* C9: an iteration of run goes poll, quit check, step, timer update,
\* present-if-dirty, tone update, each doing only its own work; the check
\* that sees quit set ends the loop, and nothing of the machine, the
\* display or the tone changes after that.
C9_DriverOrder ==
    [][ /\ loc' /= loc => loc' \in C9_After(loc, quit)
        /\ (\E r \in 0..15 : v'[r] /= v[r]) => loc \in { "step", "wait" }
        /\ << i, pc, sp, memory, halted, pixels >> /= << i', pc', sp', memory', halted', pixels' >>
              => loc = "step"
        /\ << at, dt >> /= << at', dt' >> => loc \in { "step", "timers" }
        /\ cycles' /= cycles => loc = "timers"
        /\ canvas' /= canvas => loc \in { "start", "present" }
        /\ playing' /= playing => loc = "tone"
        /\ << key_status, quit >> /= << key_status', quit' >> => loc \in { "poll", "wait" }
        /\ loc = "done" =>
              UNCHANGED << v, i, pc, sp, at, dt, memory, cycles, halted, pixels, dirty,
                           canvas, playing, loc >> ]_vars

\* C9: quit was seen at the check while the delay timer, written 5, was
\* counting down: run has returned with the timer at 3
C9_Witness == loc = "done" /\ quit /\ hist.dt0 = 5 /\ dt = 3

C10_Floor(timer) == IF timer > 0 THEN timer - 1 ELSE 0

C10_After(start, ticks) == IF start > ticks THEN start - ticks ELSE 0

\* C10: the timer update ticks on every second iteration and resets the
\* cycle counter; a tick takes 1 from each timer that is above 0 and leaves
\* a timer at 0 alone; so n ticks after Fx15/Fx18 wrote t the timer reads
\* max(t - n, 0): from 3 it reads 0 after 3 ticks, from 5 after 5, never 255.
C10_TimerDecay ==
    [][ /\ (loc = "timers" /\ loc' = "present") =>
            IF cycles + 1 = 2
            THEN cycles' = 0 /\ at' = C10_Floor(at) /\ dt' = C10_Floor(dt)
            ELSE cycles' = cycles + 1 /\ at' = at /\ dt' = dt
        /\ cycles' \in 0 .. 1
        /\ hist'.atn < MaxTicks => at' = C10_After(hist'.at0, hist'.atn)
        /\ hist'.dtn < MaxTicks => dt' = C10_After(hist'.dt0, hist'.dtn)
        /\ (hist'.at0 = 3 /\ hist'.atn >= 3) => at' = 0
        /\ (hist'.dt0 = 5 /\ hist'.dtn >= 5) => dt' = 0 ]_vars

\* C10: the timers were written 5 and 3 and five ticks later both read 0
C10_Witness ==
    /\ hist.dt0 = 5 /\ hist.dtn = 5 /\ dt = 0
    /\ hist.at0 = 3 /\ hist.atn = 5 /\ at = 0

\* C11: while Fx0A waits with a timer above 0 and no key comes, the timers
\* go on counting down: both reach 0 and the tone is stopped (or the wait
\* has ended because a key did come).
C11_TimersRunWhileWaiting ==
    (loc = "wait" /\ (at > 0 \/ dt > 0)) ~> (loc /= "wait" \/ (at = 0 /\ dt = 0 /\ ~playing))

\* C12: when an iteration of run completes, and until the next step, the
\* tone is playing exactly when the sound timer is not 0.
C12_ToneFollowsSoundTimer ==
    [][ /\ (loc = "tone" /\ loc' = "poll") => (playing' <=> at' /= 0)
        /\ loc \in { "poll", "check" } => (playing <=> at /= 0) ]_vars

\* C12: the sound timer was written 3, the tone played, and the iteration of
\* the third tick has ended with the timer at 0 and the tone stopped
C12_Witness ==
    loc = "poll" /\ ~playing /\ at = 0 /\ hist.at0 = 3 /\ hist.atn = 3

\* C13: wait_for_input empties the last-key latch on entry; the latch is set
\* only by a key-down event, to that key; and when wait_for_input returns,
\* the latch is empty again.
C13_LatchLifecycle ==
    [][ /\ (loc = "step" /\ loc' = "wait") => last_key' = None
        /\ (last_key' /= last_key /\ last_key' /= None) =>
              \E k \in DOMAIN queue : queue[k] = KeyDown(last_key'[1])
        /\ (loc = "wait" /\ loc' = "timers") => last_key' = None ]_vars

\* the byte at address a after a load that truncates and pads with zeros
C14_Expected(program, a) ==
    IF a < PROGRAM_START THEN FontByte(a)
    ELSE IF a - PROGRAM_START < Len(program) THEN program[a - PROGRAM_START + 1]
    ELSE 0

\* C14: loading a program file of any length does not fault; memory has its
\* 4096 bytes, the program (cut at 3584 bytes) from 0x200 on, zeros after
\* it, and the bytes below 0x200 as they were.
C14_LoadIsTotal ==
    /\ loc /= "abort"
    /\ DOMAIN memory \subseteq 0 .. (MEMORY_SIZE - 1)
    /\ loc = "start" =>
          \E run \in LoadRuns :
              \A a \in 0 .. (MEMORY_SIZE - 1) :
                  ReadByte(memory, a) = C14_Expected(run.program, a)

\* C15: the 80 bytes from address 0 are the font table in every reachable
\* state: no instruction changes them.
C15_FontIsFixed ==
    \A a \in 0 .. (Len(FONT_DATA) - 1) : ReadByte(memory, FONT_DATA_START + a) = FONT_DATA[a + 1]

\* the cells whose pixel this step changes
Repainted ==
    { c \in (DOMAIN pixels) \cup (DOMAIN pixels') : PixelAt(pixels, c) /= PixelAt(pixels', c) }

\* C16: a Dxyn of n rows at (Vx, Vy) changes only pixels of the columns
\* Vx .. Vx + 7 and of the rows Vy .. Vy + n - 1: nothing wraps to another
\* row or column.
C16_DrawDoesNotWrap ==
    [][ ( /\ Stepped /\ ~halted /\ Fetchable
          /\ Decode(Opcode) = "drw"
          /\ loc' /= "fault" )
        => \A c \in Repainted :
              /\ c % DISPLAY_W \in v[XNibble(Opcode)] .. (v[XNibble(Opcode)] + 7)
              /\ c \div DISPLAY_W \in v[YNibble(Opcode)] .. (v[YNibble(Opcode)] + NNibble(Opcode) - 1) ]_vars

\* the last draw that returned
LastDraw == hist.draw[1]

\* this step is a Dxyn that returns and repeats the last draw: the same
\* sprite at the same place, on the pixels that draw left
C17_SecondDraw ==
    /\ Stepped /\ ~halted /\ Fetchable
    /\ Decode(Opcode) = "drw"
    /\ loc' /= "fault"
    /\ hist.draw /= << >>
    /\ LastDraw.after = pixels
    /\ LastDraw.sprite = SpriteAt(memory, i, NNibble(Opcode))
    /\ LastDraw.x = v[XNibble(Opcode)]
    /\ LastDraw.y = v[YNibble(Opcode)]

\* C17 as stated: the second of two draws of a sprite that lies inside the
\* grid restores the pixels of before the first and sets VF = 1.
C17_SecondDrawSetsVF ==
    [][ ( /\ C17_SecondDraw
          /\ LastDraw.x + 7 < DISPLAY_W
          /\ LastDraw.y + Len(LastDraw.sprite) - 1 < DISPLAY_H )
        => /\ pixels' = LastDraw.before
           /\ v'[15] = 1 ]_vars

\* C17: the second of two draws of the same sprite at the same place
\* restores the pixels of before the first; it sets VF = 1 exactly when the
\* first draw lit a pixel (one that was off before it), and VF = 0 otherwise.
C17_SecondDrawRestores ==
    [][ C17_SecondDraw
        => /\ pixels' = LastDraw.before
           /\ v'[15] = IF Lit(LastDraw.after) \ Lit(LastDraw.before) /= { } THEN 1 ELSE 0 ]_vars

\* C17: glyph 0 has been drawn twice at (0, 0) on the blank screen: the
\* screen is blank again and VF = 1
C17_Witness ==
    /\ hist.draw /= << >>
    /\ LastDraw.before /= BlankPixels
    /\ LastDraw.after = BlankPixels
    /\ pixels = BlankPixels
    /\ v[15] = 1
    /\ LastDraw.sprite = << 240, 144, 144, 144, 240 >>

\* this step executes the instruction `kind` with x in 0 .. 14
ArithStep(kind) ==
    /\ Stepped /\ ~halted /\ Fetchable
    /\ Decode(Opcode) = kind
    /\ XNibble(Opcode) \in 0 .. 14

\* C18: 8xy4 with x in 0 .. 14 leaves Vx = (Vx + Vy) mod 256 and VF = 1 if
\* Vx + Vy >= 256, VF = 0 otherwise.
C18_AddWithCarry ==
    [][ ArithStep("add_v") =>
          LET a == v[XNibble(Opcode)]
              b == v[YNibble(Opcode)]
          IN  /\ v'[XNibble(Opcode)] = (a + b) % 256
              /\ v'[15] = IF a + b >= 256 THEN 1 ELSE 0
              /\ v'[15] \in { 0, 1 }
              /\ loc' = "timers" ]_vars

\* C18: 60FF 6101 8014 has run: 255 + 1 left V0 = 0 and VF = 1
C18_Witness ==
    /\ pc = PROGRAM_START + 6
    /\ ReadByte(memory, PROGRAM_START + 4) = 128
    /\ ReadByte(memory, PROGRAM_START + 5) = 20
    /\ ReadByte(memory, PROGRAM_START + 1) = 255
    /\ v[0] = 0 /\ v[1] = 1 /\ v[15] = 1

\* C19: with x in 0 .. 14, 8xy5 leaves Vx = (Vx - Vy) mod 256 and VF = 1
\* exactly when Vx >= Vy; 8xy7 leaves Vx = (Vy - Vx) mod 256 and VF = 1
\* exactly when Vy >= Vx; equal operands give 0 and VF = 1.
C19_SubtractNoBorrow ==
    [][ /\ ArithStep("sub") =>
              LET a == v[XNibble(Opcode)]
                  b == v[YNibble(Opcode)]
              IN  /\ v'[XNibble(Opcode)] = (a - b + 256) % 256
                  /\ v'[15] = IF a >= b THEN 1 ELSE 0
                  /\ a = b => (v'[XNibble(Opcode)] = 0 /\ v'[15] = 1)
        /\ ArithStep("subn") =>
              LET a == v[XNibble(Opcode)]
                  b == v[YNibble(Opcode)]
              IN  /\ v'[XNibble(Opcode)] = (b - a + 256) % 256
                  /\ v'[15] = IF b >= a THEN 1 ELSE 0
                  /\ a = b => (v'[XNibble(Opcode)] = 0 /\ v'[15] = 1) ]_vars

\* C19: 6001 6101 8015 has run: 1 - 1 left V0 = 0 and VF = 1
C19_Witness ==
    /\ pc = PROGRAM_START + 6
    /\ ReadByte(memory, PROGRAM_START + 4) = 128
    /\ ReadByte(memory, PROGRAM_START + 5) = 21
    /\ ReadByte(memory, PROGRAM_START + 1) = 1
    /\ v[0] = 0 /\ v[1] = 1 /\ v[15] = 1

\* C20: with x in 0 .. 14, 8xy6 leaves VF = Vx & 1 and Vx = Vx >> 1; 8xyE
\* leaves VF = Vx & 0x80 (0 or 0x80, not 0 or 1) and Vx = (Vx << 1) mod 256;
\* Vy, for y other than x and F, is left as it was and has no part in it.
C20_ShiftsCaptureBit ==
    [][ /\ ArithStep("shr") =>
              LET a == v[XNibble(Opcode)]
              IN  /\ v'[15] = a % 2
                  /\ v'[XNibble(Opcode)] = a \div 2
        /\ ArithStep("shl") =>
              LET a == v[XNibble(Opcode)]
              IN  /\ v'[15] = IF a >= 128 THEN 128 ELSE 0
                  /\ v'[XNibble(Opcode)] = (a * 2) % 256
        /\ (ArithStep("shr") \/ ArithStep("shl")) =>
              \A r \in 0 .. 14 : r /= XNibble(Opcode) => v'[r] = v[r] ]_vars

\* C20: 6080 61FF 801E has run: 0x80 shifted left left V0 = 0 and VF = 0x80
C20_Witness ==
    /\ pc = PROGRAM_START + 6
    /\ ReadByte(memory, PROGRAM_START + 4) = 128
    /\ ReadByte(memory, PROGRAM_START + 5) = 30
    /\ ReadByte(memory, PROGRAM_START + 1) = 128
    /\ v[0] = 0 /\ v[1] = 255 /\ v[15] = 128

\* the last Fx55 that returned
LastStore == hist.store[1]

\* this step executes the instruction `kind` with I + x inside memory
MemStep(kind) ==
    /\ Stepped /\ ~halted /\ Fetchable
    /\ Decode(Opcode) = kind
    /\ i >= 0 /\ i + XNibble(Opcode) < MEMORY_SIZE

\* C21: Fx55 with I = I0 and I0 + x < 4096 writes V0 .. Vx at I0 .. I0 + x,
\* leaves I = I0 + x + 1 and changes no register; Fx65 with the same x and
\* I = I0 again, the bytes stored still in place, gives V0 .. Vx the values
\* they had before the store, leaves the registers above Vx as they are
\* and I = I0 + x + 1.
C21_StoreLoadRoundTrip ==
    [][ /\ MemStep("ld_mem_v") =>
              /\ loc' = "timers"
              /\ \A k \in 0 .. XNibble(Opcode) : ReadByte(memory', i + k) = v[k]
              /\ i' = i + XNibble(Opcode) + 1
              /\ v' = v
        /\ ( /\ MemStep("ld_v_mem")
              /\ hist.store /= << >>
              /\ LastStore.i0 = i
              /\ LastStore.x = XNibble(Opcode)
              /\ \A k \in 0 .. XNibble(Opcode) : ReadByte(memory, i + k) = LastStore.v[k] )
           => /\ loc' = "timers"
              /\ \A k \in 0 .. XNibble(Opcode) : v'[k] = LastStore.v[k]
              /\ \A k \in (XNibble(Opcode) + 1) .. 15 : v'[k] = v[k]
              /\ i' = i + XNibble(Opcode) + 1 ]_vars

\* C21: V0 = 255 and V1 = 1 were stored at 0x300 with F155, overwritten with
\* 0 and 255, and loaded back with F165; VF, set to 1 after the store, is 1
C21_Witness ==
    /\ pc = PROGRAM_START + 20
    /\ hist.store /= << >>
    /\ LastStore.i0 = 768 /\ LastStore.x = 1
    /\ v[0] = 255 /\ v[1] = 1 /\ v[15] = 1
    /\ i = 770

\* C22: Fx33 with I + 2 < 4096 stores Vx div 100, (Vx div 10) mod 10 and
\* Vx mod 10 at I, I + 1, I + 2: three bytes in 0 .. 9 that make up Vx in
\* decimal; I, the registers and every other byte of memory stay as they are.
C22_BcdDigits ==
    [][ ( /\ Stepped /\ ~halted /\ Fetchable
          /\ Decode(Opcode) = "ld_b"
          /\ i >= 0 /\ i + 2 < MEMORY_SIZE )
        => LET value == v[XNibble(Opcode)]
           IN  /\ loc' = "timers"
               /\ ReadByte(memory', i) = value \div 100
               /\ ReadByte(memory', i + 1) = (value \div 10) % 10
               /\ ReadByte(memory', i + 2) = value % 10
               /\ 100 * ReadByte(memory', i) + 10 * ReadByte(memory', i + 1)
                     + ReadByte(memory', i + 2) = value
               /\ \A k \in 0 .. 2 : ReadByte(memory', i + k) \in 0 .. 9
               /\ i' = i
               /\ v' = v
               /\ \A a \in ((DOMAIN memory) \cup (DOMAIN memory')) \ { i, i + 1, i + 2 } :
                     ReadByte(memory', a) = ReadByte(memory, a) ]_vars

\* C22: 60FF A300 F033 has run: 255 is stored as 2, 5, 5 at 0x300
C22_Witness ==
    /\ pc = PROGRAM_START + 6
    /\ v[0] = 255
    /\ i = 768
    /\ ReadByte(memory, PROGRAM_START + 5) = 51
    /\ ReadByte(memory, 768) = 2 /\ ReadByte(memory, 769) = 5 /\ ReadByte(memory, 770) = 5

\* the pc a step fetched at p leaves, by the word it fetched
C23_NextPc(word, p) ==
    LET op == word \div 4096
        x == (word \div 256) % 16
        y == (word \div 16) % 16
        n == word % 16
        kk == word % 256
        nnn == word % 4096
        skip(cond) == IF cond THEN p + 4 ELSE p + 2
    IN  CASE word = 238 -> FromBeBytes(ReadByte(memory, sp), ReadByte(memory, sp + 1))
          [] op \in { 1, 2 } -> nnn
          [] op = 11 -> v[0] + nnn
          [] op = 3 -> skip(v[x] = kk)
          [] op = 4 -> skip(v[x] /= kk)
          [] op = 5 /\ n = 0 -> skip(v[x] = v[y])
          [] op = 9 /\ n = 0 -> skip(v[x] /= v[y])
          [] op = 14 /\ kk = 158 -> skip(key_status[v[x]])
          [] op = 14 /\ kk = 161 -> skip(~key_status[v[x]])
          [] OTHER -> p + 2

\* C23: a step of a running interpreter that fetches at p leaves pc = nnn
\* for 1nnn and 2nnn, V0 + nnn for Bnnn, the popped address for 00EE, p + 4
\* for a skip whose condition holds, and p + 2 for every other word, an
\* untaken skip and a halting word included; the wait of Fx0A moves pc no
\* further.
C23_PcTransition ==
    [][ /\ (Stepped /\ ~halted /\ Fetchable /\ loc' /= "fault") =>
              pc' = C23_NextPc(Opcode, pc)
        /\ loc /= "step" => pc' = pc ]_vars

\* C23: 6000 6101 9010 has run: V0 /= V1, the skip at 0x204 was taken
C23_Witness ==
    /\ pc = PROGRAM_START + 8
    /\ ~halted
    /\ v[0] = 0 /\ v[1] = 1
    /\ ReadByte(memory, PROGRAM_START + 4) = 144
    /\ ReadByte(memory, PROGRAM_START + 5) = 16

\* the cells under the set bits of the sprite of this Dxyn: bit 7 - dx of
\* row dy is the pixel (Vx + dx, Vy + dy)
C24_Flipped ==
    { (v[YNibble(Opcode)] + dy) * DISPLAY_W + (v[XNibble(Opcode)] + dx) :
        << dx, dy >> \in
          { d \in (0 .. 7) \X (0 .. (NNibble(Opcode) - 1)) :
              (ReadByte(memory, i + d[2]) \div Pow2(7 - d[1])) % 2 = 1 } }

\* C24: a Dxyn whose sprite lies inside the grid flips the pixel
\* (Vx + dx, Vy + dy) exactly when bit 7 - dx of memory[I + dy] is 1 and
\* changes no other pixel; VF = 1 if a flipped pixel was 1 before, VF = 0
\* otherwise; I and memory are unchanged.
C24_DrawSemantics ==
    [][ ( /\ Stepped /\ ~halted /\ Fetchable
          /\ Decode(Opcode) = "drw"
          /\ i >= 0 /\ i + NNibble(Opcode) <= MEMORY_SIZE
          /\ v[XNibble(Opcode)] + 7 < DISPLAY_W
          /\ v[YNibble(Opcode)] + NNibble(Opcode) - 1 < DISPLAY_H )
        => /\ loc' = "timers"
           /\ \A c \in 0 .. (DISPLAY_W * DISPLAY_H - 1) :
                 PixelAt(pixels', c) =
                   IF c \in C24_Flipped THEN 1 - PixelAt(pixels, c) ELSE PixelAt(pixels, c)
           /\ v'[15] = IF \E c \in C24_Flipped : PixelAt(pixels, c) = 1 THEN 1 ELSE 0
           /\ i' = i
           /\ memory' = memory ]_vars

\* C24: three rows of glyph 0 (F0 90 90) were drawn at (5, 2) and again at
\* (6, 2): the cells of both are lit but for the shared ones, and VF = 1
C24_Witness ==
    /\ pc = PROGRAM_START + 12
    /\ v[0] = 6 /\ v[1] = 2 /\ v[15] = 1
    /\ Lit(pixels) = { 133, 137, 197, 198, 200, 201, 261, 262, 264, 265 }

\* the positions in the pump of the key-down events
C25_Presses == { k \in DOMAIN queue : queue[k].type = "KeyDown" }

\* the key of the last key-down event in the pump
C25_LastPress == queue[CHOOSE k \in C25_Presses : \A j \in C25_Presses : j <= k].key

\* C25: Fx0A starts to wait whatever keys are held; while it waits the latch
\* is empty; an iteration of the wait that handles no key-down event (none,
\* or key-up and quit events only) leaves the wait going and the latch
\* empty; one that handles key-down events ends the wait with the key of
\* the last of them in Vx and no other register changed.
C25_WaitReturnsFreshPress ==
    [][ /\ (Stepped /\ ~halted /\ Fetchable /\ Decode(Opcode) = "ld_vx_k") =>
              loc' = "wait" /\ last_key' = None /\ v' = v
        /\ loc = "wait" => last_key = None
        /\ (loc = "wait" /\ events' = events /\ C25_Presses = { }) =>
              loc' = "wait" /\ last_key' = None /\ v' = v
        /\ (loc = "wait" /\ events' = events /\ C25_Presses /= { }) =>
              /\ loc' = "timers"
              /\ v' = [ v EXCEPT ![wait_x] = C25_LastPress ] ]_vars

\* C25: key 0 was pressed and is held; F00A has returned key 1, pressed
\* after it
C25_Witness ==
    /\ loc = "timers"
    /\ pc = PROGRAM_START + 2
    /\ key_status[0] /\ key_status[1]
    /\ v[0] = 1
    /\ last_key = Some(1)

\* this step executes 00E0 or a Dxyn that returns
C26_Paints ==
    /\ Stepped /\ ~halted /\ Fetchable
    /\ Decode(Opcode) \in { "cls", "drw" }
    /\ loc' /= "fault"

\* C26 as stated: after the first present, dirty is true exactly when the
\* pixels differ from the frame last presented; a present by the loop
\* pushes a frame that differs from the last; an iteration ends with
\* dirty = false.
C26_DirtyIffChanged ==
    [][ /\ loc /= "start" => (dirty <=> Lit(pixels) /= canvas)
        /\ (loc = "present" /\ dirty) => canvas' /= canvas
        /\ loc \in { "tone", "poll", "check" } => ~dirty ]_vars

\* C26: 00E0 and Dxyn set dirty, whether or not a pixel changed; nothing
\* else sets it and only a present resets it; so after the first present,
\* pixels that differ from the frame last presented are flagged dirty; the
\* loop presents exactly when dirty is set, and an iteration ends with
\* dirty = false and the frame presented equal to the pixels.
C26_DirtyTracking ==
    [][ /\ C26_Paints => dirty'
        /\ (dirty' /\ ~dirty) => C26_Paints
        /\ (~dirty' /\ dirty) => (loc \in { "start", "present" } /\ canvas' = Lit(pixels))
        /\ (loc /= "start" /\ Lit(pixels) /= canvas) => dirty
        /\ (loc = "present" /\ ~dirty) => canvas' = canvas
        /\ loc \in { "tone", "poll", "check" } => (~dirty /\ canvas = Lit(pixels)) ]_vars

\* C26: a sprite was drawn and the iteration has presented it
C26_Witness ==
    /\ loc = "tone"
    /\ ~dirty
    /\ hist.draw /= << >>
    /\ canvas = Lit(pixels)
    /\ canvas /= { }

C28_PixelsAreBinary ==
    /\ DOMAIN pixels \subseteq 0 .. (DISPLAY_W * DISPLAY_H - 1)
    /\ \A c \in DOMAIN pixels : pixels[c] \in { 0, 1 }
    /\ \A n \in { 1, 5, 15 }, x \in { v[0], v[1] } :
          (i >= 0 /\ i + n <= MEMORY_SIZE) =>
              DrawSprite(pixels, SpriteAt(memory, i, n), x, v[1], 0)
                = DrawSprite(pixels, SpriteAt(memory, i, n), x, v[1], 1)

\* C28: glyph 0 has been drawn three times at (0, 0): its 14 cells, cleared
\* by the second draw, are lit again
C28_Witness ==
    /\ pc = PROGRAM_START + 8
    /\ hist.draw /= << >>
    /\ LastDraw.before = BlankPixels
    /\ pixels = LastDraw.after
    /\ Cardinality(Lit(pixels)) = 14
    /\ v[15] = 0

\* this step executes the instruction `kind` with x = F
FlagStep(kind) ==
    /\ Stepped /\ ~halted /\ Fetchable
    /\ Decode(Opcode) = kind
    /\ XNibble(Opcode) = 15

\* C29: with x = F the flag write of 8Fy4, 8Fy5 and 8Fy7 comes last: VF is
\* left holding the carry / no-borrow flag, 0 or 1, and the sum or
\* difference is gone; the shift of 8Fy6 and 8FyE is applied to the flag
\* just written, so VF is left 0 whatever it held.  No other register
\* changes.
C29_FlagAliasing ==
    [][ /\ FlagStep("add_v") =>
              v'[15] = IF v[15] + v[YNibble(Opcode)] >= 256 THEN 1 ELSE 0
        /\ FlagStep("sub") =>
              v'[15] = IF v[15] >= v[YNibble(Opcode)] THEN 1 ELSE 0
        /\ FlagStep("subn") =>
              v'[15] = IF v[YNibble(Opcode)] >= v[15] THEN 1 ELSE 0
        /\ (FlagStep("shr") \/ FlagStep("shl")) => v'[15] = 0
        /\ (\E kind \in { "add_v", "sub", "subn", "shr", "shl" } : FlagStep(kind)) =>
              /\ v'[15] \in { 0, 1 }
              /\ \A r \in 0 .. 14 : v'[r] = v[r]
              /\ loc' = "timers" ]_vars

\* C29: 6FFF 6100 8F16 has run: VF held 0xFF, whose low bit is 1, and the
\* shift left VF = 0
C29_Witness ==
    /\ pc = PROGRAM_START + 6
    /\ ReadByte(memory, PROGRAM_START) = 111
    /\ ReadByte(memory, PROGRAM_START + 1) = 255
    /\ ReadByte(memory, PROGRAM_START + 4) = 143
    /\ ReadByte(memory, PROGRAM_START + 5) = 22
    /\ v[15] = 0 /\ v[1] = 0

\* a step of the run loop itself, leaving its place in the loop
LoopStep == loc' /= loc

\* C30: halting does not stop the driver.  Once halted the interpreter
\* stays halted and its step call changes nothing, but the loop goes on
\* round poll, quit check, step, timers, present and tone: the cycle count
\* advances, the nonzero timers lose 1 on every second iteration, the tone
\* follows the sound timer, and the only way to the end of run is the quit
\* check finding the quit flag set; short of that the halted loop always
\* has a next step.
C30_HaltedLoopGoesOn ==
    /\ [](loc = "done" => quit)
    /\ [](halted => loc /= "fault" /\ cycles \in 0 .. (CYCLES_PER_SECOND \div 60 - 1))
    /\ []((halted /\ loc /= "done") => ENABLED Driver)
    /\ [][ halted =>
            /\ halted'
            /\ << v, i, pc, sp, memory, pixels >>' = << v, i, pc, sp, memory, pixels >>
            /\ (loc = "poll" /\ LoopStep) => (loc' = "check" /\ queue' = << >>)
            /\ (loc = "check" /\ LoopStep) => loc' = (IF quit THEN "done" ELSE "step")
            /\ (loc = "step" /\ LoopStep) => (loc' = "timers" /\ at' = at /\ dt' = dt)
            /\ (loc = "timers" /\ LoopStep) =>
                  LET second == cycles + 1 = CYCLES_PER_SECOND \div 60
                  IN  /\ loc' = "present"
                      /\ cycles' = IF second THEN 0 ELSE cycles + 1
                      /\ at' = IF second /\ at > 0 THEN at - 1 ELSE at
                      /\ dt' = IF second /\ dt > 0 THEN dt - 1 ELSE dt
            /\ (loc = "present" /\ LoopStep) => loc' = "tone"
            /\ (loc = "tone" /\ LoopStep) => (loc' = "poll" /\ playing' = (at /= 0)) ]_vars

\* C30: 6005 F018 F015 halted on the word after it with both timers
\* nonzero and the tone on; the loop went on until both timers read 0 and
\* the tone was stopped, and with no quit it is polling again
C30_Witness ==
    /\ halted /\ ~quit /\ loc = "poll"
    /\ pc = PROGRAM_START + 8
    /\ ReadByte(memory, PROGRAM_START + 2) = 240
    /\ ReadByte(memory, PROGRAM_START + 3) = 24
    /\ v[0] = 5
    /\ at = 0 /\ dt = 0 /\ ~playing
    /\ hist.atn >= 4

====
